---- MODULE Spec2Model ----
(***************************************************************************)
(* A model of pgi::DatabaseWorker (src/classes/DatabaseWorker.hpp).        *)
(*                                                                         *)
(* Text is modelled character by character: a string is a sequence of      *)
(* one-character strings, and a std::stringstream is a buffer with a put   *)
(* position, so that seekp(-2) followed by a write overwrites what the     *)
(* code overwrites.  The database is an oracle outside the program: a      *)
(* catalog of tables that may change between calls, and a connection that  *)
(* may break before any statement of a call.                               *)
(***************************************************************************)
EXTENDS Integers, Sequences, FiniteSets, TLC

VARIABLES db_config_, c_, db, call

vars == <<db_config_, c_, db, call>>

(***************************************************************************)
(* Bounds of the model.                                                    *)
(***************************************************************************)
\* a call's connection may break before its statement number 0..MaxBreak
MaxBreak == 2
\* a user SELECT returns 0..MaxRows rows
MaxRows == 1
\* select is given at most MaxFields fields
MaxFields == 2

(***************************************************************************)
(* Strings.                                                                *)
(***************************************************************************)
Min(a, b) == IF a < b THEN a ELSE b
Max(a, b) == IF a > b THEN a ELSE b

\* the characters the model uses, in ASCII order
Ascii == <<"\n"," ","!","'","(",")","*",",","-",".","0","1","2","3","4","5","6","7","8","9",":","=",">","?","A","B","C","D","E","F","G","H","I","J","K","L","M","N","O","P","Q","R","S","T","U","V","W","X","Y","Z","_","a","b","c","d","e","f","g","h","i","j","k","l","m","n","o","p","q","r","s","t","u","v","w","x","y","z","|">>

CharRank(c) == CHOOSE i \in 1..Len(Ascii) : Ascii[i] = c

\* std::string operator< : lexicographic comparison by character code
RECURSIVE StrLess(_, _)
StrLess(a, b) ==
    IF b = <<>> THEN FALSE
    ELSE IF a = <<>> THEN TRUE
    ELSE IF a[1] = b[1] THEN StrLess(Tail(a), Tail(b))
    ELSE CharRank(a[1]) < CharRank(b[1])

\* std::string::find(needle) != npos
Contains(s, needle) ==
    \E i \in 0..(Len(s) - Len(needle)) : SubSeq(s, i + 1, i + Len(needle)) = needle

\* operator<<(int): decimal digits, '-' in front of a negative number
RECURSIVE Digits(_)
Digits(n) ==
    IF n < 10 THEN <<<<"0","1","2","3","4","5","6","7","8","9">>[n + 1]>>
    ELSE Digits(n \div 10) \o <<<<"0","1","2","3","4","5","6","7","8","9">>[(n % 10) + 1]>>

IntToStr(n) == IF n < 0 THEN <<"-">> \o Digits(0 - n) ELSE Digits(n)

(***************************************************************************)
(* std::stringstream: the buffer, the put position (characters before the  *)
(* put pointer) and the fail bit.                                          *)
(***************************************************************************)
NewStream == [buf |-> <<>>, pos |-> 0, fail |-> FALSE]

\* operator<< : writes at the put position, over what is there, and extends
\* the buffer past its end; does nothing once the stream has failed
Put(ss, s) ==
    IF ss.fail THEN ss
    ELSE [ss EXCEPT !.buf = SubSeq(ss.buf, 1, ss.pos) \o s
                            \o SubSeq(ss.buf, ss.pos + Len(s) + 1, Len(ss.buf)),
                    !.pos = ss.pos + Len(s)]

\* seekp(off, cur): a position outside the buffer sets the fail bit
SeekpCur(ss, off) ==
    IF ss.fail THEN ss
    ELSE IF ss.pos + off < 0 \/ ss.pos + off > Len(ss.buf)
         THEN [ss EXCEPT !.fail = TRUE]
         ELSE [ss EXCEPT !.pos = ss.pos + off]

\* str(): the whole buffer, whatever the put position
Str(ss) == ss.buf

\* std::getline(ss, segment, delim) on an input stream over s, `pos`
\* characters of which are read and whose eof bit is `eof`; `segment` keeps
\* its old value when the stream is not good on entry
getline(s, pos, eof, segment, delim) ==
    IF eof THEN [segment |-> segment, pos |-> pos, eof |-> TRUE]
    ELSE LET hits == {i \in (pos + 1)..Len(s) : s[i] = delim}
         IN  IF hits = {}
             THEN [segment |-> SubSeq(s, pos + 1, Len(s)), pos |-> Len(s), eof |-> TRUE]
             ELSE LET at == CHOOSE i \in hits : \A j \in hits : i <= j
                  IN  [segment |-> SubSeq(s, pos + 1, at - 1), pos |-> at, eof |-> FALSE]

(***************************************************************************)
(* The database, as the worker sees it.                                    *)
(***************************************************************************)
\* the table identifiers callers and the configuration use
TableNames == {<<"s",".","t">>, <<"u">>}

\* where the database keeps each of them: "u" resolves to public.u
RealSchema(T) == IF T = <<"s",".","t">> THEN <<"s">> ELSE <<"p","u","b","l","i","c">>
RealName(T) == IF T = <<"s",".","t">> THEN <<"t">> ELSE <<"u">>

\* the layouts a table can have
Layouts == {"absent", "users", "events", "keyonly"}

\* the layouts each table goes through
TableLayouts(T) == IF T = <<"s",".","t">> THEN Layouts ELSE {"absent", "keyonly"}

LayoutCols(l) ==
    CASE l = "users"   -> << [name |-> <<"i","d">>, oid |-> 23],
                             [name |-> <<"n","a","m","e">>, oid |-> 25],
                             [name |-> <<"c","r","e","a","t","e","d","_","a","t">>, oid |-> 1114] >>
      [] l = "events"  -> << [name |-> <<"t","s">>, oid |-> 1184],
                             [name |-> <<"v">>, oid |-> 23] >>
      [] l = "keyonly" -> << [name |-> <<"i","d">>, oid |-> 23] >>
      [] OTHER         -> << >>

\* the primary-key column of a layout, <<>> when it has none
LayoutPk(l) ==
    CASE l = "users"   -> <<"i","d">>
      [] l = "events"  -> <<"t","s">>
      [] l = "keyonly" -> <<"i","d">>
      [] OTHER         -> <<>>

\* pg_type: oid -> typname
PgOids == {23, 25, 1114, 1184}
PgType(oid) ==
    CASE oid = 23   -> <<"i","n","t","4">>
      [] oid = 25   -> <<"t","e","x","t">>
      [] oid = 1114 -> <<"t","i","m","e","s","t","a","m","p">>
      [] oid = 1184 -> <<"t","i","m","e","s","t","a","m","p","t","z">>
      [] OTHER      -> <<>>

ColNames(cols) == {cols[i].name : i \in 1..Len(cols)}

\* pqxx::result: column metadata and rows of field texts
EmptyResult == [cols |-> <<>>, rows |-> <<>>]

\* the text of column c in row i of a table
SampleValue(c, i) ==
    IF c.oid = 25 THEN <<"a"," ","n","a","m","e"," ","l","o","n","g","e","r"," ","t","h","a","n"," ","t","h","e"," ","c","o","l","u","m","n">> ELSE IntToStr(i)

SampleRows(cols, n) == [i \in 1..n |-> [j \in 1..Len(cols) |-> SampleValue(cols[j], i)]]

\* A statement as execute receives it: its text (for the statements the
\* public methods build) and what the database needs to answer it.
\*   kind: "columns" (SELECT * FROM T LIMIT 0), "pk" (the information_schema
\*   query), "typname" (the pg_type lookup), "select", "insert", "clear"
Stmt(kind, table, sql, a, b) == [kind |-> kind, table |-> table, sql |-> sql, a |-> a, b |-> b]

\* the database's answer to a statement: ok = FALSE is an SQL error
DbExec(d, st) ==
    LET cols == LayoutCols(d[st.table]) IN
    CASE st.kind = "columns" ->
            IF d[st.table] = "absent" THEN [ok |-> FALSE, res |-> EmptyResult]
            ELSE [ok |-> TRUE, res |-> [cols |-> cols, rows |-> <<>>]]
      [] st.kind = "pk" ->
            \* a = schema, b = table: the key columns of the tables named b,
            \* joined to the columns of schema a that carry the same name
            LET keys == {T \in TableNames :
                            /\ RealName(T) = st.b
                            /\ LayoutPk(d[T]) # <<>>
                            /\ \E U \in TableNames :
                                  /\ RealSchema(U) = st.a
                                  /\ LayoutPk(d[T]) \in ColNames(LayoutCols(d[U]))}
            IN  [ok |-> TRUE,
                 res |-> [cols |-> << [name |-> <<"c","o","l","u","m","n","_","n","a","m","e">>, oid |-> 25],
                                      [name |-> <<"d","a","t","a","_","t","y","p","e">>, oid |-> 25] >>,
                          rows |-> IF keys = {} THEN <<>>
                                   ELSE << <<LayoutPk(d[CHOOSE T \in keys : TRUE]), <<"?">>>> >>]]
      [] st.kind = "typname" ->
            \* a = oid
            [ok |-> TRUE,
             res |-> [cols |-> << [name |-> <<"t","y","p","n","a","m","e">>, oid |-> 25] >>,
                      rows |-> IF st.a \in PgOids THEN << <<PgType(st.a)>> >> ELSE <<>>]]
      [] st.kind = "select" ->
            \* a = the columns the statement names, b = [limit, rows]
            IF d[st.table] = "absent" \/ ~(st.a.need \subseteq ColNames(cols)) \/ st.b.limit < 0
            THEN [ok |-> FALSE, res |-> EmptyResult]
            ELSE LET shown == IF st.a.fields = <<>> THEN cols
                              ELSE [i \in 1..Len(st.a.fields) |->
                                       CHOOSE c \in {cols[j] : j \in 1..Len(cols)} :
                                           c.name = st.a.fields[i]]
                 IN  [ok |-> TRUE,
                      res |-> [cols |-> shown,
                               rows |-> SampleRows(shown, Min(st.b.limit, st.b.rows))]]
      [] st.kind = "insert" ->
            \* a = the columns listed, b = the number of values
            [ok |-> /\ d[st.table] # "absent"
                    /\ Len(st.a) >= 1
                    /\ Len(st.a) = st.b
                    /\ \A i \in 1..Len(st.a) : st.a[i] \in ColNames(cols),
             res |-> EmptyResult]
      [] OTHER ->
            [ok |-> d[st.table] # "absent", res |-> EmptyResult]

(***************************************************************************)
(* The worker.  Its methods are operators on a record m that threads the   *)
(* object and the world through one public call:                           *)
(*   cfg     db_config_ (tables, tables_details)                           *)
(*   conn    "null" (c_ was never set), "up", "broken"                     *)
(*   brk     whether the connection breaks in this call, and before which  *)
(*           statement                                                     *)
(*   ub      what the two undefined operations do in this call             *)
(*   status  "ok", "threw" (an exception is in flight), "crashed"          *)
(*   res     the value last returned by execute / execute1 / a lookup      *)
(*   log     the statements handed to execute and execute1                 *)
(*   tx      the transaction events on the connection                      *)
(*   cerr    the number of messages written to std::cerr                   *)
(*   cout    the text written to std::cout                                 *)
(***************************************************************************)
NoEntry == [defined |-> FALSE, schema |-> <<>>, table |-> <<>>, columns |-> <<>>,
            haspk |-> FALSE, primary_key |-> <<>>]

NoDetails == [T \in TableNames |-> NoEntry]

\* catch (const std::exception& e) { std::cerr << e.what() << '\n'; }
catch(m) ==
    IF m.status = "threw" THEN [m EXCEPT !.status = "ok", !.cerr = @ + 1] ELSE m

\* a transaction that leaks when its statement fails
tx_events_leak(ok) == IF ok THEN <<"begin", "exec", "commit">> ELSE <<"begin", "exec">>

\* what the connection sees of { pqxx::work w(*c_); w.exec(statement);
\* w.commit(); }: w begins a transaction, and leaving the block by an
\* exception destroys w, which abandons it
tx_events(ok) == <<"begin", "exec", IF ok THEN "commit" ELSE "abort">>

\* pqxx::work w(*c_); r = w.exec(statement); w.commit();  inside try/catch
transact(m, st, one) ==
    IF m.status # "ok" THEN m
    ELSE IF m.conn = "null"
    THEN \* *c_ on a null shared_ptr: undefined
         IF m.ub.deref = "crash" THEN [m EXCEPT !.status = "crashed"]
         ELSE [m EXCEPT !.res = EmptyResult, !.cerr = @ + 1,
                        !.log = Append(@, [st |-> st, ok |-> FALSE])]
    ELSE IF m.conn = "broken" \/ (m.brk.on /\ m.brk.at = 0)
    THEN \* the transaction cannot begin
         [m EXCEPT !.conn = "broken", !.res = EmptyResult, !.cerr = @ + 1,
                   !.log = Append(@, [st |-> st, ok |-> FALSE])]
    ELSE LET answered(r, ok) ==
                 [m EXCEPT !.brk.at = IF m.brk.on THEN @ - 1 ELSE @,
                           !.res = IF ok THEN r.res ELSE EmptyResult,
                           !.cerr = IF ok THEN @ ELSE @ + 1,
                           !.tx = @ \o tx_events(ok),
                           !.log = Append(@, [st |-> st, ok |-> ok])]
             \* exec1 throws unless the result has exactly one row
             checked(r) == answered(r, r.ok /\ (one => Len(r.res.rows) = 1))
         IN  checked(DbExec(m.db, st))

execute(m, st) == transact(m, st, FALSE)

\* the row it returns is m.res.rows, empty after a failure
execute1(m, st) == transact(m, st, TRUE)

\* row[0].as<std::string>() on the row execute1 returned; on the empty row
\* of a failure the field access is undefined
get_typname_from_oid(m, oid) ==
    LET field(m1) ==
            IF m1.status # "ok" THEN m1
            ELSE IF m1.res.rows # <<>> THEN [m1 EXCEPT !.res = m1.res.rows[1][1]]
            ELSE IF m1.ub.row = "throw" THEN [m1 EXCEPT !.status = "threw"]
            ELSE [m1 EXCEPT !.res = <<"?">>]
    IN  field(execute1(m, Stmt("typname", <<>>, <<>>, oid, 0)))

\* node[key] = value on a YAML map: the value of an existing key is replaced
\* in place, a new key goes last
MapSet(map, key, value) ==
    IF \E i \in 1..Len(map) : map[i].key = key
    THEN [i \in 1..Len(map) |-> IF map[i].key = key THEN [key |-> key, value |-> value]
                                ELSE map[i]]
    ELSE Append(map, [key |-> key, value |-> value])

\* the loop over r.columns() of get_column_details
RECURSIVE column_loop(_, _, _, _)
column_loop(m, T, cols, i) ==
    IF i > Len(cols) \/ m.status # "ok" THEN m
    ELSE LET store(m1) ==
                 IF m1.status # "ok" THEN m1
                 ELSE column_loop(
                        [m1 EXCEPT !.cfg.tables_details[T].columns = MapSet(@, cols[i].name, m1.res)],
                        T, cols, i + 1)
         IN  store(get_typname_from_oid(m, cols[i].oid))

\* a key query without rows leaves an empty name
primary_key_unnamed(r) == IF r.rows # <<>> THEN r.rows[1][1] ELSE <<>>

\* if (!r.empty()) ... = r[0][0].as<std::string>(); else ... = "_none_";
primary_key_of(r) == IF r.rows # <<>> THEN r.rows[1][1] ELSE <<"_","n","o","n","e","_">>

get_column_details(m, T) ==
    IF m.status # "ok" THEN m
    ELSE
    LET g1 == getline(T, 0, FALSE, <<>>, ".")
        g2 == getline(T, g1.pos, g1.eof, g1.segment, ".")
        m1 == [m EXCEPT !.cfg.tables_details[T].defined = TRUE,
                        !.cfg.tables_details[T].schema = g1.segment,
                        !.cfg.tables_details[T].table = g2.segment]
        key(m4) ==
            IF m4.status # "ok" THEN m4
            ELSE [m4 EXCEPT !.cfg.tables_details[T].haspk = TRUE,
                            !.cfg.tables_details[T].primary_key = primary_key_of(m4.res)]
        columns(m2) ==
            key(execute(column_loop(m2, T, m2.res.cols, 1),
                        Stmt("pk", <<>>, <<>>, g1.segment, g2.segment)))
    IN  catch(columns(execute(m1, Stmt("columns", T, <<>>, 0, 0))))

RECURSIVE explore_loop(_, _)
explore_loop(m, i) ==
    IF i > Len(m.cfg.tables) \/ m.status # "ok" THEN m
    ELSE explore_loop(get_column_details(m, m.cfg.tables[i]), i + 1)

explore_tables(m) == catch(explore_loop(m, 1))

\* discovery of the new table alone
explore_only_unknown(m, T) ==
    IF m.status # "ok" \/ m.cfg.tables_details[T].defined THEN m
    ELSE get_column_details([m EXCEPT !.cfg.tables = Append(@, T)], T)

explore_if_unknown(m, T) ==
    IF m.status # "ok" \/ m.cfg.tables_details[T].defined THEN m
    ELSE explore_tables([m EXCEPT !.cfg.tables = Append(@, T)])

\* new pqxx::connection(connection_string) inside try/catch
connect(m, reachable) ==
    IF reachable THEN [m EXCEPT !.conn = "up"]
    ELSE [m EXCEPT !.conn = "null", !.cerr = @ + 1]

\* the record a public call starts from
Enter(cfg, conn, d, brk, ub) ==
    [cfg |-> cfg, conn |-> conn, db |-> d, brk |-> brk, ub |-> ub, status |-> "ok",
     res |-> EmptyResult, log |-> <<>>, tx |-> <<>>, cerr |-> 0, cout |-> <<>>]

\* DatabaseWorker(configuration_file): the configuration holds `tables`
DatabaseWorker(tables, reachable, d, brk, ub) ==
    explore_tables(connect(
        Enter([tables |-> tables, tables_details |-> NoDetails], "null", d, brk, ub),
        reachable))

(***************************************************************************)
(* The public methods.                                                     *)
(***************************************************************************)
\* the columns a condition names (the database parses it, the worker does not)
CondCols(cond) == IF cond = <<>> THEN {} ELSE {<<"i","d">>}

\* for (size_t i = 1; i < fields.size(); i++) ss << ", " << fields[i];
RECURSIVE select_fields(_, _, _)
select_fields(ss, fields, i) ==
    IF i > Len(fields) THEN ss
    ELSE select_fields(Put(Put(ss, <<","," ">>), fields[i]), fields, i + 1)

\* a WHERE clause whatever the condition
select_statement_where(T, fields, cond, limit) ==
    LET s1 == IF Len(fields) = 0 THEN Put(NewStream, <<"S","E","L","E","C","T"," ","*">>)
              ELSE select_fields(Put(Put(NewStream, <<"S","E","L","E","C","T"," ">>), fields[1]), fields, 2)
        s2 == Put(Put(s1, <<" ","F","R","O","M"," ">>), T)
        s3 == Put(Put(s2, <<" ","W","H","E","R","E"," ">>), cond)
        s4 == Put(Put(s3, <<" ","L","I","M","I","T"," ">>), IntToStr(limit))
    IN  Str(s4)

\* the statement select builds
select_statement(T, fields, cond, limit) ==
    LET s1 == IF Len(fields) = 0 THEN Put(NewStream, <<"S","E","L","E","C","T"," ","*">>)
              ELSE select_fields(Put(Put(NewStream, <<"S","E","L","E","C","T"," ">>), fields[1]), fields, 2)
        s2 == Put(Put(s1, <<" ","F","R","O","M"," ">>), T)
        s3 == IF cond # <<>> THEN Put(Put(s2, <<" ","W","H","E","R","E"," ">>), cond) ELSE s2
        s4 == Put(Put(s3, <<" ","L","I","M","I","T"," ">>), IntToStr(limit))
    IN  Str(s4)

\* `rows` is how many rows the table holds that satisfy the condition
select(m, T, fields, cond, limit, rows) ==
    execute(explore_if_unknown(m, T),
            Stmt("select", T, select_statement(T, fields, cond, limit),
                 [fields |-> fields, need |-> {fields[i] : i \in 1..Len(fields)} \cup CondCols(cond)],
                 [limit |-> limit, rows |-> rows]))

select_all_columns(m, T, cond, rows) == select(m, T, <<>>, cond, 100, rows)

\* the `field_length_mapping` section of the configuration
FieldLengthMapping == << [key |-> <<"t","e","x","t">>, value |-> 12], [key |-> <<"i","n","t","4">>, value |-> 1] >>

\* utl::truncate(text, width)
truncate(text, width) == SubSeq(text, 1, Min(Len(text), width))

\* std::left << std::setw(width) << std::setfill(' ') << text
RECURSIVE Fill(_)
Fill(n) == IF n <= 0 THEN <<>> ELSE <<" ">> \o Fill(n - 1)

SetwLeft(text, width) == text \o Fill(width - Len(text))

\* the loop over the columns of print_row; m.res is <<ss, headerss>>
RECURSIVE print_row_loop(_, _, _, _, _)
print_row_loop(m, r, rownum, colnum, header) ==
    IF colnum > Len(r.cols) \/ m.status # "ok" THEN m
    ELSE LET cell(m1) ==
         LET ss == m.res[1]
             headerss == m.res[2]
             column_name == r.cols[colnum].name
             column_type == m1.res
             known == {i \in 1..Len(FieldLengthMapping) : FieldLengthMapping[i].key = column_type}
             configured == IF known # {} THEN FieldLengthMapping[CHOOSE i \in known : TRUE].value
                           ELSE 10
             field_width == Max(Len(column_name), configured)
             ss1 == Put(Put(ss, SetwLeft(truncate(r.rows[rownum][colnum], field_width), field_width)),
                        <<" ","|">>)
             headerss1 == IF header
                          THEN Put(Put(headerss,
                                       SetwLeft(truncate(column_name, field_width), field_width)),
                                   <<" ","|">>)
                          ELSE headerss
         IN  IF m1.status # "ok" THEN m1
             ELSE print_row_loop([m1 EXCEPT !.res = <<ss1, headerss1>>], r, rownum, colnum + 1, header)
         IN  cell(get_typname_from_oid(m, r.cols[colnum].oid))

\* m.res is the text of the row, below the header if asked for
print_row(m, r, rownum, header) ==
    LET text(m1) ==
            IF m1.status # "ok" THEN m1
            ELSE IF header
                 THEN [m1 EXCEPT !.res = Str(Put(Put(m1.res[2], <<"\n">>), Str(m1.res[1])))]
                 ELSE [m1 EXCEPT !.res = Str(m1.res[1])]
    IN  text(print_row_loop([m EXCEPT !.res = <<NewStream, NewStream>>], r, rownum, 1, header))

\* the loop over the rows of print
RECURSIVE print_loop(_, _, _, _, _)
print_loop(m, r, rownum, header_added, ss) ==
    IF m.status # "ok" THEN m
    ELSE IF rownum > Len(r.rows) THEN [m EXCEPT !.cout = @ \o Str(ss), !.res = EmptyResult]
    ELSE LET line(m1) ==
                 IF m1.status # "ok" THEN m1
                 ELSE print_loop(m1, r, rownum + 1, TRUE, Put(Put(ss, m1.res), <<"\n">>))
         IN  line(print_row(m, r, rownum, ~header_added))

print(m, r) == print_loop(m, r, 1, FALSE, NewStream)

\* print(table_name)
print_table(m, T, rows) ==
    LET show(m1) == print(m1, m1.res) IN show(select_all_columns(m, T, <<>>, rows))

\* the key column left out whatever its type
include_unless_key(e, c) == c.key # e.primary_key

\* "Include column only if it is not a primary key except if it is of type
\* timezone": the test of insert_statement_first_part on a column c of entry e
include_column(e, c) == c.key # e.primary_key \/ Contains(c.value, <<"t","i","m","e","s","t","a","m","p">>)

\* the loop over tables_details[T].columns of insert_statement_first_part;
\* m.res is [ss, listed]: the stream and the columns written so far
RECURSIVE first_part_loop(_, _, _)
first_part_loop(m, T, i) ==
    LET e == m.cfg.tables_details[T] IN
    IF i > Len(e.columns) \/ m.status # "ok" THEN m
    ELSE IF ~e.haspk
    THEN \* primary_key.as<std::string>() on a node that is not there
         [m EXCEPT !.status = "threw"]
    ELSE IF include_column(e, e.columns[i])
    THEN first_part_loop(
            [m EXCEPT !.res = [ss |-> Put(Put(m.res.ss, e.columns[i].key), <<","," ">>),
                               listed |-> Append(m.res.listed, e.columns[i].key)]],
            T, i + 1)
    ELSE first_part_loop(m, T, i + 1)

\* m.res is [text, listed]
insert_statement_first_part(m, T) ==
    IF m.status # "ok" THEN m
    ELSE
    LET ss == Put(Put(Put(NewStream, <<"I","N","S","E","R","T"," ","I","N","T","O"," ">>), T), <<"(">>)
        close(m1) ==
            IF m1.status # "ok" THEN m1
            ELSE [m1 EXCEPT !.res = [text |-> Str(Put(SeekpCur(m1.res.ss, -2), <<")"," ","V","A","L","U","E","S","(">>)),
                                     listed |-> m1.res.listed]]
    IN  close(first_part_loop([m EXCEPT !.res = [ss |-> ss, listed |-> <<>>]], T, 1))

\* ss << element << ", " for every element
RECURSIVE put_values(_, _, _)
put_values(ss, values, i) ==
    IF i > Len(values) THEN ss
    ELSE put_values(Put(Put(ss, IntToStr(values[i])), <<","," ">>), values, i + 1)

\* ss.seekp(-2, ss.cur); ss << ')'; execute(ss.str());
insert_finish(m, T, ss, listed, nvalues) ==
    execute(m, Stmt("insert", T, Str(Put(SeekpCur(ss, -2), <<")">>)), listed, nvalues))

\* insert(table_name, values...)
insert_values(m, T, values) ==
    LET rest(m1) ==
            IF m1.status # "ok" THEN m1
            ELSE insert_finish(m1, T, put_values(Put(NewStream, m1.res.text), values, 1),
                               m1.res.listed, Len(values))
    IN  rest(insert_statement_first_part(explore_if_unknown(m, T), T))

\* insert(table_name, vector)
insert_vector(m, T, vector) ==
    LET rest(m1) ==
            IF m1.status # "ok" THEN m1
            ELSE insert_finish(m1, T, put_values(Put(NewStream, m1.res.text), vector, 1),
                               m1.res.listed, Len(vector))
    IN  rest(insert_statement_first_part(explore_if_unknown(m, T), T))

\* utl::ISO_8601(tp), tp counted in seconds of one minute
ISO_8601(tp) == <<"2","0","2","0","-","0","1","-","0","1","T","0","0",":","0","0",":","0">> \o IntToStr(tp) \o <<"Z">>

\* insert(table_name, tp, vector)
insert_timed(m, T, tp, vector) ==
    LET rest(m1) ==
            IF m1.status # "ok" THEN m1
            ELSE insert_finish(m1, T,
                               put_values(Put(Put(Put(Put(NewStream, m1.res.text), <<"'">>),
                                                  ISO_8601(tp)), <<"'",","," ">>),
                                          vector, 1),
                               m1.res.listed, 1 + Len(vector))
    IN  rest(insert_statement_first_part(explore_if_unknown(m, T), T))

\* utl::merge_maps(maps...): one std::map, which iterates in key order; a
\* map is given as its entries in key order
RECURSIVE map_insert(_, _)
map_insert(map, e) ==
    IF map = <<>> THEN <<e>>
    ELSE IF map[1].key = e.key THEN map
    ELSE IF StrLess(e.key, map[1].key) THEN <<e>> \o map
    ELSE <<map[1]>> \o map_insert(Tail(map), e)

RECURSIVE merge_maps(_)
merge_maps(maps) ==
    IF maps = <<>> THEN <<>>
    ELSE LET rest == merge_maps(Tail(maps))
             RECURSIVE add(_, _)
             add(acc, es) == IF es = <<>> THEN acc ELSE add(map_insert(acc, es[1]), Tail(es))
         IN  add(add(<<>>, maps[1]), rest)

\* for (auto const& [key, val] : merged_maps) of insert_from_maps;
\* ss is <<columns, values>>
RECURSIVE from_maps_loop(_, _, _)
from_maps_loop(ss, merged, i) ==
    IF i > Len(merged) THEN ss
    ELSE from_maps_loop(<<Put(Put(ss[1], merged[i].key), <<","," ">>),
                          Put(Put(ss[2], merged[i].value), <<","," ">>)>>, merged, i + 1)

insert_from_maps_statement(T, merged) ==
    LET statement(columns, values) ==
            Str(Put(Put(Put(Put(Put(Put(NewStream, <<"I","N","S","E","R","T"," ","I","N","T","O"," ">>), T), <<" ">>),
                            Str(columns)), <<"V","A","L","U","E","S"," ">>), Str(values)))
        close(ss) == statement(Put(SeekpCur(ss[1], -2), <<")">>), Put(SeekpCur(ss[2], -2), <<")">>))
    IN  close(from_maps_loop(<<Put(NewStream, <<"(">>), Put(NewStream, <<"(">>)>>, merged, 1))

insert_from_maps(m, T, maps) ==
    LET run(merged) ==
            execute(explore_if_unknown(m, T),
                    Stmt("insert", T, insert_from_maps_statement(T, merged),
                         [i \in 1..Len(merged) |-> merged[i].key], Len(merged)))
    IN  run(merge_maps(maps))

clear(m, T) ==
    execute(m, Stmt("clear", T, Str(Put(Put(Put(NewStream, <<"T","R","U","N","C","A","T","E"," ">>), T), <<" ","C","A","S","C","A","D","E">>)), 0, 0))

(***************************************************************************)
(* Inputs.                                                                 *)
(***************************************************************************)
Breaks == {[on |-> FALSE, at |-> 0]} \cup {[on |-> TRUE, at |-> k] : k \in 0..MaxBreak}

Ubs == [deref : {"crash", "throw"}, row : {"throw", "garbage"}]

\* the `tables` lists a configuration file may hold
TableLists == {<<>>, <<<<"s",".","t">>>>, <<<<"u">>>>, <<<<"s",".","t">>, <<"u">>>>}

Catalogs == {d \in [TableNames -> Layouts] : \A T \in TableNames : d[T] \in TableLayouts(T)}

\* what a state keeps of the call that produced it
Record(op, T, args, pre, m) ==
    [op |-> op, table |-> T, args |-> args, pre |-> pre, ret |-> m.status,
     res |-> m.res, log |-> m.log, tx |-> m.tx, cerr |-> m.cerr, cout |-> m.cout]

Leave(op, T, args, m) ==
    /\ db_config_' = m.cfg
    /\ c_' = m.conn
    /\ call' = Record(op, T, args, db_config_, m)
    /\ UNCHANGED db

Init ==
    \E tables \in TableLists, reachable \in BOOLEAN, d \in Catalogs, brk \in Breaks, ub \in Ubs :
        LET constructed(m) ==
                /\ db = d
                /\ db_config_ = m.cfg
                /\ c_ = m.conn
                /\ call = Record("DatabaseWorker", <<>>, <<>>,
                                 [tables |-> tables, tables_details |-> NoDetails], m)
        IN  constructed(DatabaseWorker(tables, reachable, d, brk, ub))

\* the process is alive
Alive == call.ret # "crashed"

\* no call is in flight: the caller has taken what the last one returned
IdleCall == [op |-> "idle", table |-> <<>>, args |-> <<>>, pre |-> <<>>, ret |-> "ok",
             res |-> <<>>, log |-> <<>>, tx |-> <<>>, cerr |-> 0, cout |-> <<>>]

Idle == call = IdleCall

\* the inputs the environment draws for one call
BreaksNow == IF c_ = "up" THEN Breaks ELSE {[on |-> FALSE, at |-> 0]}

UbsNow == [deref : IF c_ = "null" THEN {"crash", "throw"} ELSE {"throw"},
           row : {"throw", "garbage"}]

\* the sequences over S of length at most n
RECURSIVE SeqsUpTo(_, _)
SeqsUpTo(S, n) ==
    IF n = 0 THEN {<<>>}
    ELSE LET shorter == SeqsUpTo(S, n - 1) IN
         shorter \cup {Append(q, x) : q \in shorter, x \in S}

FieldLists == {<<>>, <<<<"i","d">>, <<"n","a","m","e">>>>}
Conds == {<<>>, <<"i","d"," ",">"," ","1">>}
Limits == {5}
WideFieldLists == SeqsUpTo({<<"i","d">>, <<"n","a","m","e">>}, MaxFields)
WideLimits == {-1, 0, 5, 100}
ValueLists == {<<>>, <<7>>, <<7, 42>>}
TimePoints == {0}
MapLists == {<<>>,
             << <<[key |-> <<"n","a","m","e">>, value |-> <<"'","x","'">>]>> >>,
             << <<[key |-> <<"n","a","m","e">>, value |-> <<"'","x","'">>]>>,
                <<[key |-> <<"i","d">>, value |-> <<"7">>], [key |-> <<"n","a","m","e">>, value |-> <<"'","y","'">>]>> >>}
Results == {[cols |-> LayoutCols(l), rows |-> SampleRows(LayoutCols(l), n)] :
               l \in {"users"}, n \in 0..MaxRows}

Start(brk, ub) == Enter(db_config_, c_, db, brk, ub)

SelectFrom(Fs, Ls) ==
    \E T \in TableNames, fields \in Fs, cond \in Conds, limit \in Ls,
       rows \in 0..MaxRows, brk \in BreaksNow, ub \in UbsNow :
        /\ Idle
        /\ Leave("select", T, [fields |-> fields, cond |-> cond, limit |-> limit],
                 select(Start(brk, ub), T, fields, cond, limit, rows))

Select == SelectFrom(FieldLists, Limits)

SelectWide == SelectFrom(WideFieldLists, WideLimits)

SelectAllColumns ==
    \E T \in TableNames, cond \in Conds, rows \in 0..MaxRows, brk \in BreaksNow, ub \in UbsNow :
        /\ Idle
        /\ Leave("select_all_columns", T, [cond |-> cond],
                 select_all_columns(Start(brk, ub), T, cond, rows))

PrintResult ==
    \E r \in Results, brk \in BreaksNow, ub \in UbsNow :
        /\ Idle
        /\ Leave("print", <<>>, r, print(Start(brk, ub), r))

PrintTable ==
    \E T \in TableNames, rows \in 0..MaxRows, brk \in BreaksNow, ub \in UbsNow :
        /\ Idle
        /\ Leave("print_table", T, <<>>, print_table(Start(brk, ub), T, rows))

InsertValues ==
    \E T \in TableNames, values \in ValueLists, brk \in BreaksNow, ub \in UbsNow :
        /\ Idle
        /\ Leave("insert_values", T, values, insert_values(Start(brk, ub), T, values))

InsertVector ==
    \E T \in TableNames, vector \in ValueLists, brk \in BreaksNow, ub \in UbsNow :
        /\ Idle
        /\ Leave("insert_vector", T, vector, insert_vector(Start(brk, ub), T, vector))

InsertTimed ==
    \E T \in TableNames, tp \in TimePoints, vector \in ValueLists, brk \in BreaksNow, ub \in UbsNow :
        /\ Idle
        /\ Leave("insert_timed", T, [tp |-> tp, vector |-> vector],
                 insert_timed(Start(brk, ub), T, tp, vector))

InsertFromMaps ==
    \E T \in TableNames, maps \in MapLists, brk \in BreaksNow, ub \in UbsNow :
        /\ Idle
        /\ Leave("insert_from_maps", T, maps, insert_from_maps(Start(brk, ub), T, maps))

Clear ==
    \E T \in TableNames, brk \in BreaksNow, ub \in UbsNow :
        /\ Idle
        /\ Leave("clear", T, <<>>, clear(Start(brk, ub), T))

\* somebody else changes a table in the database
AlterTable ==
    \E T \in TableNames : \E l \in TableLayouts(T) :
        /\ Idle
        /\ l # db[T]
        /\ db' = [db EXCEPT ![T] = l]
        /\ UNCHANGED <<db_config_, c_, call>>

\* the caller takes the outcome of the call; a crashed process is gone
Return ==
    /\ ~Idle
    /\ Alive
    /\ call' = IdleCall
    /\ UNCHANGED <<db_config_, c_, db>>

Next ==
    \/ Return
    \/ Select
    \/ SelectAllColumns
    \/ PrintResult
    \/ PrintTable
    \/ InsertValues
    \/ InsertVector
    \/ InsertTimed
    \/ InsertFromMaps
    \/ Clear
    \/ AlterTable

Spec == Init /\ [][Next]_vars

\* the worker used for nothing but select
NextSelect ==
    \/ Return
    \/ SelectWide
    \/ SelectAllColumns

SpecSelect == Init /\ [][NextSelect]_vars
(***************************************************************************)
(* What the claims speak of.                                               *)
(***************************************************************************)
HasPrefix(s, p) == Len(p) <= Len(s) /\ SubSeq(s, 1, Len(p)) = p

Count(s, c) == Cardinality({i \in 1..Len(s) : s[i] = c})

RECURSIVE Join(_, _)
Join(parts, sep) ==
    IF parts = <<>> THEN <<>>
    ELSE IF Len(parts) = 1 THEN parts[1]
    ELSE parts[1] \o sep \o Join(Tail(parts), sep)

\* the number a decimal text denotes; -1000000 for a text that denotes none
RECURSIVE ParseNat(_, _)
ParseNat(s, acc) ==
    IF s = <<>> THEN acc
    ELSE IF \E d \in 0..9 : <<"0","1","2","3","4","5","6","7","8","9">>[d + 1] = s[1]
    THEN ParseNat(Tail(s), 10 * acc + (CHOOSE d \in 0..9 : <<"0","1","2","3","4","5","6","7","8","9">>[d + 1] = s[1]))
    ELSE -1000000

ParseInt(s) ==
    IF s = <<>> THEN -1000000
    ELSE IF s[1] = "-" THEN (IF Len(s) = 1 THEN -1000000 ELSE 0 - ParseNat(Tail(s), 0))
    ELSE ParseNat(s, 0)

\* the text written to std::cout, line by line
RECURSIVE Lines(_)
Lines(s) ==
    IF s = <<>> THEN <<>>
    ELSE LET ends == {i \in 1..Len(s) : s[i] = "\n"} IN
         IF ends = {} THEN <<s>>
         ELSE LET at == CHOOSE i \in ends : \A j \in ends : i <= j
              IN  <<SubSeq(s, 1, at - 1)>> \o Lines(SubSeq(s, at + 1, Len(s)))

SelectOps == {"select", "select_all_columns"}
ValueInsertOps == {"insert_values", "insert_vector", "insert_timed"}
InsertOps == ValueInsertOps \cup {"insert_from_maps"}
PublicOps == SelectOps \cup InsertOps \cup {"clear", "print", "print_table"}
UserKinds == {"select", "insert", "clear"}

\* the statements of the call that name a user table on behalf of the caller
Logged(kinds) == {i \in 1..Len(call.log) : call.log[i].st.kind \in kinds}

Entry(T) == db_config_.tables_details[T]

\* the columns the claim says an insert lists
ListedColumns(e) ==
    LET keep(c) == c.key # e.primary_key \/ Contains(c.value, <<"t","i","m","e","s","t","a","m","p">>)
        kept == SelectSeq(e.columns, keep)
    IN  [i \in 1..Len(kept) |-> kept[i].key]

\* the keys of the maps, each once, in the order of std::string operator<
RECURSIVE Sorted(_)
Sorted(keys) ==
    IF keys = {} THEN <<>>
    ELSE LET least == CHOOSE k \in keys : \A j \in keys \ {k} : StrLess(k, j)
         IN  <<least>> \o Sorted(keys \ {least})

MapKeys(maps) ==
    Sorted(UNION {{maps[i][j].key : j \in 1..Len(maps[i])} : i \in 1..Len(maps)})

(***************************************************************************)
(* C1: whenever select, an insert variant or clear hands its statement for *)
(* a table to the database, tables_details already holds an entry for that *)
(* table.  clear does not look the table up, so this fails, even for the   *)
(* statements the database carries out.                                    *)
(***************************************************************************)
C1_EntryBeforeStatement ==
    \A i \in Logged(UserKinds) :
        call.log[i].ok => Entry(call.log[i].st.table).defined

(***************************************************************************)
(* C2: no failure reaches the caller: every public operation, the          *)
(* constructor included, returns.  print_row resolves type names outside   *)
(* any try block, so this fails once a connection that was established     *)
(* stops answering.                                                        *)
(***************************************************************************)
C2_NoFailureReachesCaller == c_ # "null" => call.ret = "ok"

(***************************************************************************)
(* C3: a call never changes a tables_details entry that existed when the   *)
(* call began.  Discovering a new table discovers every listed table       *)
(* again, so this fails, on a connection that works throughout.            *)
(***************************************************************************)
C3_EntryNeverChanges ==
    (call.op \in PublicOps /\ c_ = "up") =>
        \A T \in TableNames :
            call.pre.tables_details[T].defined => Entry(T) = call.pre.tables_details[T]

C5_InsertStatementShape ==
    (call.op \in InsertOps /\ c_ = "up" /\ db[call.table] # "absent") =>
        \A i \in Logged({"insert"}) :
            LET sql == call.log[i].st.sql
                open == {k \in 1..Len(sql) : sql[k] = "("}
                shut == {k \in 1..Len(sql) : sql[k] = ")"}
            IN  /\ HasPrefix(sql, <<"I","N","S","E","R","T"," ","I","N","T","O"," ">> \o call.log[i].st.table)
                /\ Cardinality(open) = 2
                /\ Cardinality(shut) = 2
                /\ \A k \in open : \E j \in shut : k < j
                /\ \E k \in open : \E j \in shut : j < k

(***************************************************************************)
(* C6: select builds exactly                                               *)
(*   SELECT <fields joined by ", ", or *> FROM <table>                     *)
(*          [ WHERE <condition>] LIMIT <limit>                             *)
(* with the WHERE clause iff the condition is not empty, and               *)
(* select_all_columns(t, c) builds what select(t, {}, c, 100) builds.      *)
(***************************************************************************)
SelectText(T, fields, cond) ==
    <<"S","E","L","E","C","T"," ">> \o (IF fields = <<>> THEN <<"*">> ELSE Join(fields, <<","," ">>))
        \o <<" ","F","R","O","M"," ">> \o T
        \o (IF cond # <<>> THEN <<" ","W","H","E","R","E"," ">> \o cond ELSE <<>>)
        \o <<" ","L","I","M","I","T"," ">>

IsSelectOf(sql, T, fields, cond, limit) ==
    LET head == SelectText(T, fields, cond) IN
    /\ HasPrefix(sql, head)
    /\ ParseInt(SubSeq(sql, Len(head) + 1, Len(sql))) = limit
    /\ Len(sql) - Len(head) = IF limit < 0 THEN Len(Digits(0 - limit)) + 1 ELSE Len(Digits(limit))

C6_SelectStatement ==
    /\ call.op = "select" =>
        \A i \in Logged({"select"}) :
            IsSelectOf(call.log[i].st.sql, call.table,
                       call.args.fields, call.args.cond, call.args.limit)
    /\ call.op = "select_all_columns" =>
        \A i \in Logged({"select"}) :
            /\ IsSelectOf(call.log[i].st.sql, call.table, <<>>, call.args.cond, 100)
            /\ call.log[i].st.sql = select_statement(call.table, <<>>, call.args.cond, 100)

C6_Witness ==
    /\ call.op = "select"
    /\ call.args = [fields |-> <<<<"i","d">>, <<"n","a","m","e">>>>, cond |-> <<"i","d"," ",">"," ","1">>, limit |-> 5]
    /\ call.log # <<>>
    /\ call.log[Len(call.log)].st.sql = <<"S","E","L","E","C","T"," ","i","d",","," ","n","a","m","e"," ","F","R","O","M"," ","s",".","t"," ","W","H","E","R","E"," ","i","d"," ",">"," ","1"," ","L","I","M","I","T"," ","5">>

(***************************************************************************)
(* C7: one call of print writes the header line once, first, and then one  *)
(* line per row of the result.  The header is written with the first row,  *)
(* so an empty result has none and this fails, on a connection that works  *)
(* throughout.                                                             *)
(***************************************************************************)
C7_HeaderThenOneLinePerRow ==
    (call.op = "print" /\ c_ = "up") => Len(Lines(call.cout)) = 1 + Len(call.args.rows)

(***************************************************************************)
(* C8, as claimed: construction leaves, for every table of the             *)
(* configuration's list, an entry holding schema, table, columns and       *)
(* primary_key, and issues no statement against a table that is not in the *)
(* list.                                                                   *)
(***************************************************************************)
ForeignStatements ==
    {i \in 1..Len(call.log) :
        \/ call.log[i].st.kind \in UserKinds
        \/ /\ call.log[i].st.kind = "columns"
           /\ \A k \in 1..Len(call.pre.tables) : call.pre.tables[k] # call.log[i].st.table}

Discovered == SelectSeq([i \in 1..Len(call.log) |-> call.log[i].st], LAMBDA st : st.kind = "columns")

C10_DiscoveryMemoized ==
    (call.op \in SelectOps \cup InsertOps /\ Alive) =>
        IF call.pre.tables_details[call.table].defined
        THEN /\ db_config_ = call.pre
             /\ \A i \in 1..Len(call.log) : call.log[i].st.kind \in UserKinds
        ELSE /\ db_config_.tables = Append(call.pre.tables, call.table)
             /\ Cardinality({k \in 1..Len(db_config_.tables) : db_config_.tables[k] = call.table}) = 1
             /\ [i \in 1..Len(Discovered) |-> Discovered[i].table] = db_config_.tables
             /\ \A k \in 1..Len(db_config_.tables) : Entry(db_config_.tables[k]).defined

\* a select on a second table, the first one known from the configuration
C10_Witness ==
    /\ call.op = "select"
    /\ Alive
    /\ ~call.pre.tables_details[call.table].defined
    /\ Len(call.pre.tables) = 1
    /\ Len(Discovered) = 2
    /\ Entry(call.table).haspk
====
